---- MODULE Spec2Model ----
(***************************************************************************)
(* A model of the GUID converter of src/src/main.rs: the text-editing      *)
(* state of App (input, character_index, input_mode, messages), the key    *)
(* handlers of App::run, the classifier input_type_validation and the      *)
(* codec raw_hex_to_guid / guid_to_raw_hex.                                *)
(*                                                                         *)
(* A Rust String is modelled as a sequence of characters.  A character is  *)
(* a TLA+ string: an ASCII character stands for itself, "U+00E9" is the    *)
(* two-byte character e-acute and "U+20AC" the three-byte euro sign.  The  *)
(* code measures and slices strings in BYTES (str::len, &hex[a..b]), so    *)
(* the model keeps the UTF-8 encoding of every character.                  *)
(*                                                                         *)
(* Spec         App::run on every key event, free text up to MaxInput      *)
(* SpecLines    App::run typing the sample lines and submitting them       *)
(* SpecCodec    input_type_validation, raw_hex_to_guid and guid_to_raw_hex *)
(*              called directly on a family of strings                     *)
(* SpecReorder  the two reorderings applied to 16-byte sequences           *)
(* SpecCross    Uuid::parse_str and raw_hex_to_guid on pairs of strings    *)
(***************************************************************************)
EXTENDS Integers, Sequences, FiniteSets, TLC

VARIABLES input, character_index, input_mode, messages, key, pc,
          arg, arg2, called, ret,
          orig, bytes, path

appVars == <<input, character_index, input_mode, messages, key, pc>>
fnVars == <<arg, arg2, called, ret>>
reorderVars == <<orig, bytes, path>>
vars == <<input, character_index, input_mode, messages, key, pc,
          arg, arg2, called, ret, orig, bytes, path>>

----------------------------------------------------------------------------
(* Strings, characters and their UTF-8 bytes *)

\* The UTF-8 encoding of one character (char::encode_utf8).
Utf8(c) ==
    CASE c = "U+00E9" -> <<"xC3", "xA9">>
      [] c = "U+20AC" -> <<"xE2", "x82", "xAC">>
      [] OTHER -> <<c>>

\* char::len_utf8
Utf8Len(c) == Len(Utf8(c))

RECURSIVE AsBytes(_)
\* str::as_bytes: the bytes of a string, character after character.
AsBytes(s) == IF s = <<>> THEN <<>> ELSE Utf8(Head(s)) \o AsBytes(Tail(s))

RECURSIVE ByteLen(_)
\* str::len: the length of a string in bytes, not in characters.
ByteLen(s) == IF s = <<>> THEN 0 ELSE Utf8Len(Head(s)) + ByteLen(Tail(s))

\* str::chars().count()
CharCount(s) == Len(s)

RECURSIVE CharOffsetsFrom(_, _)
CharOffsetsFrom(s, base) ==
    IF s = <<>> THEN <<base>>
    ELSE <<base>> \o CharOffsetsFrom(Tail(s), base + Utf8Len(Head(s)))

\* str::char_indices, with the end of the string: the byte offsets at which
\* a character starts or the string ends.  CharOffsets(s)[n + 1] is the
\* offset after n characters.
CharOffsets(s) == CharOffsetsFrom(s, 0)

\* str::is_char_boundary, from the offsets of the string
IsCharBoundary(offsets, idx) == \E n \in DOMAIN offsets : offsets[n] = idx

\* char::is_whitespace, for the characters of the model.
IsWhitespace(c) == c \in {" ", "\t"}

RECURSIVE TrimStart(_)
TrimStart(s) ==
    IF s # <<>> /\ IsWhitespace(Head(s)) THEN TrimStart(Tail(s)) ELSE s

RECURSIVE TrimEnd(_)
TrimEnd(s) ==
    IF s # <<>> /\ IsWhitespace(s[Len(s)])
    THEN TrimEnd(SubSeq(s, 1, Len(s) - 1)) ELSE s

\* str::trim
Trim(s) == TrimEnd(TrimStart(s))

LowerDigits == <<"0", "1", "2", "3", "4", "5", "6", "7", "8", "9",
                 "a", "b", "c", "d", "e", "f">>
UpperDigits == <<"0", "1", "2", "3", "4", "5", "6", "7", "8", "9",
                 "A", "B", "C", "D", "E", "F">>

Range(f) == {f[i] : i \in DOMAIN f}

\* char::is_ascii_hexdigit
IsAsciiHexdigit(c) == c \in Range(LowerDigits) \cup Range(UpperDigits)

\* char::to_digit(16) of a hexadecimal digit: its value, 0..15.
ToDigit(c) ==
    IF c \in Range(LowerDigits)
    THEN (CHOOSE i \in 1..16 : LowerDigits[i] = c) - 1
    ELSE (CHOOSE i \in 1..16 : UpperDigits[i] = c) - 1

\* A slip in FromStrRadix16: radix 10, so that a..f are no digits.
FromStrRadix16_decimal(src) ==
    IF src = <<>> \/ \E i \in DOMAIN src : src[i] \notin {LowerDigits[n] : n \in 1..10}
    THEN [tag |-> "Err"]
    ELSE [tag |-> "Ok",
          value |-> IF Len(src) = 1 THEN ToDigit(src[1])
                    ELSE 10 * ToDigit(src[1]) + ToDigit(src[2])]

\* u8::from_str_radix(src, 16) on a slice of bytes: an optional leading "+"
\* (a sign alone is an error; "-" is no digit of an unsigned type), then
\* hexadecimal digits.  Two digits never overflow a u8.
FromStrRadix16(src) ==
    LET digits == IF src # <<>> /\ src[1] = "+" THEN Tail(src) ELSE src
    IN IF digits = <<>> \/ \E i \in DOMAIN digits : ~IsAsciiHexdigit(digits[i])
       THEN [tag |-> "Err"]
       ELSE [tag |-> "Ok",
             value |-> IF Len(digits) = 1 THEN ToDigit(digits[1])
                       ELSE 16 * ToDigit(digits[1]) + ToDigit(digits[2])]

\* A slip in FormatUpperHex: "{:02x}", lowercase digits.
FormatUpperHex_lowercase(b) ==
    <<LowerDigits[(b \div 16) + 1], LowerDigits[(b % 16) + 1]>>

\* format!("{:02X}", b)
FormatUpperHex(b) == <<UpperDigits[(b \div 16) + 1], UpperDigits[(b % 16) + 1]>>

\* format!("{:02x}", b), as the uuid crate's Display writes a byte
FormatLowerHex(b) == <<LowerDigits[(b \div 16) + 1], LowerDigits[(b % 16) + 1]>>

RECURSIVE Concat(_)
\* Iterator::collect::<String>() of a sequence of strings.
Concat(ss) == IF ss = <<>> THEN <<>> ELSE Head(ss) \o Concat(Tail(ss))

----------------------------------------------------------------------------
(* The uuid crate, as the program uses it.  A Uuid is its 16 bytes. *)

\* The 36-byte hyphenated form: hyphens at byte offsets 8, 13, 18 and 23,
\* hexadecimal digits of either case everywhere else.
HyphenOffsets == {9, 14, 19, 24}

IsHyphenated(s) ==
    /\ Len(s) = 36
    /\ \A i \in 1..36 : IF i \in HyphenOffsets THEN s[i] = "-"
                        ELSE IsAsciiHexdigit(s[i])

\* The 32 hexadecimal digits of an accepted string, hyphens dropped.
HexDigitsOf(s) == SelectSeq(s, LAMBDA c : c # "-")

BytesOfDigits(d) ==
    [i \in 1..16 |-> 16 * ToDigit(d[2 * i - 1]) + ToDigit(d[2 * i])]

\* Uuid::parse_str: the hyphenated form (36 bytes), the simple form (32
\* hexadecimal digits), the braced form (38 bytes) or the URN form (45
\* bytes).  Every accepted string is ASCII, so bytes and characters agree.
ParseStr(s) ==
    LET n == ByteLen(s)
        err == [tag |-> "Err"]
        ok(h) == [tag |-> "Ok", value |-> BytesOfDigits(HexDigitsOf(h))]
    IN IF n # Len(s) THEN err
       ELSE CASE n = 36 -> IF IsHyphenated(s) THEN ok(s) ELSE err
              [] n = 32 -> IF \A i \in 1..32 : IsAsciiHexdigit(s[i])
                           THEN ok(s) ELSE err
              [] n = 38 -> IF s[1] = "{" /\ s[38] = "}"
                              /\ IsHyphenated(SubSeq(s, 2, 37))
                           THEN ok(SubSeq(s, 2, 37)) ELSE err
              [] n = 45 -> IF SubSeq(s, 1, 9)
                                = <<"u", "r", "n", ":", "u", "u", "i", "d", ":">>
                              /\ IsHyphenated(SubSeq(s, 10, 45))
                           THEN ok(SubSeq(s, 10, 45)) ELSE err
              [] OTHER -> err

\* Display for Uuid (format!("{}", guid)): lowercase, hyphenated 8-4-4-4-12.
UuidDisplay(uuid) ==
    LET h(lo, hi) == Concat([i \in 1..(hi - lo + 1) |-> FormatLowerHex(uuid[lo + i - 1])])
    IN h(1, 4) \o <<"-">> \o h(5, 6) \o <<"-">> \o h(7, 8) \o <<"-">>
       \o h(9, 10) \o <<"-">> \o h(11, 16)

----------------------------------------------------------------------------
(* The codec: App::raw_hex_to_guid and App::guid_to_raw_hex *)

\* dst[lo..hi].copy_from_slice(&src[lo..hi]), offsets counted from 0.
CopyFromSlice(dst, lo, hi, src) ==
    [i \in DOMAIN dst |-> IF lo < i /\ i <= hi THEN src[i] ELSE dst[i]]

\* arr[lo..hi].reverse(), offsets counted from 0.
ReverseSlice(arr, lo, hi) ==
    [i \in DOMAIN arr |-> IF lo < i /\ i <= hi THEN arr[lo + hi + 1 - i] ELSE arr[i]]

ZeroBytes == [i \in 1..16 |-> 0]

\* A slip in raw_hex_to_guid_reordered: bytes 6..8 copied, not reversed.
raw_hex_to_guid_reordered_short(b) ==
    LET r1 == ReverseSlice(CopyFromSlice(ZeroBytes, 0, 4, b), 0, 4)
        r2 == ReverseSlice(CopyFromSlice(r1, 4, 6, b), 4, 6)
    IN CopyFromSlice(r2, 6, 16, b)

\* The reordering of raw_hex_to_guid: `reordered` from `bytes`.
raw_hex_to_guid_reordered(b) ==
    LET r1 == ReverseSlice(CopyFromSlice(ZeroBytes, 0, 4, b), 0, 4)
        r2 == ReverseSlice(CopyFromSlice(r1, 4, 6, b), 4, 6)
        r3 == ReverseSlice(CopyFromSlice(r2, 6, 8, b), 6, 8)
    IN CopyFromSlice(r3, 8, 16, b)

\* A slip in guid_to_raw_hex_reordered: bytes 4..8 reversed as one field.
guid_to_raw_hex_reordered_wide(b) ==
    LET r1 == ReverseSlice(CopyFromSlice(ZeroBytes, 0, 4, b), 0, 4)
        r2 == ReverseSlice(CopyFromSlice(r1, 4, 8, b), 4, 8)
    IN CopyFromSlice(r2, 8, 16, b)

\* The reordering of guid_to_raw_hex: `reordered` from `bytes`.
guid_to_raw_hex_reordered(b) ==
    LET r1 == ReverseSlice(CopyFromSlice(ZeroBytes, 0, 4, b), 0, 4)
        r2 == ReverseSlice(CopyFromSlice(r1, 4, 6, b), 4, 6)
        r3 == ReverseSlice(CopyFromSlice(r2, 6, 8, b), 6, 8)
    IN CopyFromSlice(r3, 8, 16, b)

\* &hex[i * 2..i * 2 + 2] and u8::from_str_radix(.., 16) for pair i (0..15):
\* the slice panics when an end of it is not a character boundary.
ParsePair(offsets, hb, i) ==
    IF ~IsCharBoundary(offsets, 2 * i) \/ ~IsCharBoundary(offsets, 2 * i + 2)
    THEN [tag |-> "panic"]
    ELSE FromStrRadix16(SubSeq(hb, 2 * i + 1, 2 * i + 2))

\* App::raw_hex_to_guid.  The pairs are parsed in order and the first one
\* that fails ends the call: with None when it did not parse, with a panic
\* when its slice cut a character.
raw_hex_to_guid(hex) ==
    IF ByteLen(hex) # 32 THEN [tag |-> "None"]
    ELSE LET hb == AsBytes(hex)
             offsets == CharOffsets(hex)
             parsed == [i \in 0..15 |-> ParsePair(offsets, hb, i)]
             failed == {i \in 0..15 : parsed[i].tag # "Ok"}
         IN IF failed = {}
            THEN [tag |-> "Some",
                  value |-> raw_hex_to_guid_reordered(
                                [i \in 1..16 |-> parsed[i - 1].value])]
            ELSE LET first == CHOOSE i \in failed : \A j \in failed : i <= j
                 IN IF parsed[first].tag = "panic" THEN [tag |-> "panic"]
                    ELSE [tag |-> "None"]

\* A slip in guid_to_raw_hex: the bytes formatted as they are.
guid_to_raw_hex_unordered(uuid) ==
    Concat([i \in 1..16 |-> FormatUpperHex(uuid[i])])

\* App::guid_to_raw_hex
guid_to_raw_hex(uuid) ==
    LET reordered == guid_to_raw_hex_reordered(uuid)
    IN Concat([i \in 1..16 |-> FormatUpperHex(reordered[i])])

----------------------------------------------------------------------------
(* The classifier and the dispatch *)

CountOf(s, c) == Len(SelectSeq(s, LAMBDA x : x = c))

\* A slip in input_type_validation: 32 bytes of anything are "RawHex".
input_type_validation_length_only(s) ==
    LET trimmed_string == Trim(s)
    IN IF ByteLen(trimmed_string) = 36 /\ CountOf(trimmed_string, "-") = 4
       THEN "Guid"
       ELSE IF ByteLen(trimmed_string) = 32 THEN "RawHex" ELSE "None"

\* App::input_type_validation
input_type_validation(s) ==
    LET trimmed_string == Trim(s)
    IN IF ByteLen(trimmed_string) = 36 /\ CountOf(trimmed_string, "-") = 4
       THEN "Guid"
       ELSE IF ByteLen(trimmed_string) = 32
               /\ \A i \in DOMAIN trimmed_string : IsAsciiHexdigit(trimmed_string[i])
            THEN "RawHex"
            ELSE "None"

\* The messages of submit_message: a mark and a text, then the payload.
MsgRawHex(raw_hex) == [text |-> "OK Raw Hex: ", payload |-> raw_hex]
MsgGuid(guid) == [text |-> "OK GUID: ", payload |-> UuidDisplay(guid)]
MsgInvalidGuid == [text |-> "X Invalid GUID", payload |-> <<>>]
MsgInvalidRawHex == [text |-> "X Invalid Raw Hex.", payload |-> <<>>]
MsgInvalidInput ==
    [text |-> "X Invalid input. It's neither raw hex nor guid.", payload |-> <<>>]

MsgPanic == [text |-> "panic", payload |-> <<>>]

\* `result` of submit_message for the content of the input box; MsgPanic
\* stands for a panic of raw_hex_to_guid, which pushes no message.
submit_result(in) ==
    LET trimmed == Trim(in)
        input_type == input_type_validation(trimmed)
    IN IF input_type = "Guid"
       THEN LET parsed == ParseStr(trimmed)
            IN IF parsed.tag = "Ok" THEN MsgRawHex(guid_to_raw_hex(parsed.value))
               ELSE MsgInvalidGuid
       ELSE IF input_type = "RawHex"
            THEN LET guid == raw_hex_to_guid(trimmed)
                 IN CASE guid.tag = "Some" -> MsgGuid(guid.value)
                      [] guid.tag = "None" -> MsgInvalidRawHex
                      [] OTHER -> MsgPanic
            ELSE MsgInvalidInput

----------------------------------------------------------------------------
(* The text-editing state of App *)

\* usize::saturating_sub(1)
SaturatingSub1(n) == IF n = 0 THEN 0 ELSE n - 1

\* usize::saturating_add(1); the cursor never comes near usize::MAX.
SaturatingAdd1(n) == n + 1

\* App::clamp_cursor
clamp_cursor(in, new_cursor_pos) ==
    IF new_cursor_pos < 0 THEN 0
    ELSE IF new_cursor_pos > CharCount(in) THEN CharCount(in)
    ELSE new_cursor_pos

\* A slip in byte_index: the character index taken for the byte offset.
byte_index_chars(in, ci) == ci

\* App::byte_index: the byte offset of character number character_index,
\* or the length in bytes when there is no such character.
byte_index(in, ci) ==
    IF ci < CharCount(in) THEN CharOffsets(in)[ci + 1] ELSE ByteLen(in)

\* String::insert(idx, ch): panics when idx is not a character boundary.
StringInsert(s, idx, ch) ==
    LET offsets == CharOffsets(s)
        at == {n \in 0..Len(s) : offsets[n + 1] = idx}
    IN IF ~IsCharBoundary(offsets, idx) THEN [tag |-> "panic"]
       ELSE LET k == CHOOSE n \in at : TRUE
            IN [tag |-> "ok",
                value |-> SubSeq(s, 1, k) \o <<ch>> \o SubSeq(s, k + 1, Len(s))]

\* chars().take(n) and chars().skip(n)
Take(s, n) == SubSeq(s, 1, IF n < Len(s) THEN n ELSE Len(s))
Skip(s, n) == SubSeq(s, n + 1, Len(s))

\* The input box after delete_char with the cursor right of character_index - 1.
delete_char_input(in, ci) ==
    LET current_index == ci
        from_left_to_current_index == current_index - 1
    IN Take(in, from_left_to_current_index) \o Skip(in, current_index)

\* App::move_cursor_left: the new character_index.
move_cursor_left(in, ci) ==
    LET cursor_moved_left == SaturatingSub1(ci)
    IN clamp_cursor(in, cursor_moved_left)

\* App::move_cursor_right: the new character_index.
move_cursor_right(in, ci) ==
    LET cursor_moved_right == SaturatingAdd1(ci)
    IN clamp_cursor(in, cursor_moved_right)

\* App::enter_char: the new input and character_index, or a panic.
enter_char(in, ci, new_char) ==
    LET index == byte_index(in, ci)
        inserted == StringInsert(in, index, new_char)
    IN IF inserted.tag = "panic" THEN [tag |-> "panic"]
       ELSE [tag |-> "ok", input |-> inserted.value,
             character_index |-> move_cursor_right(inserted.value, ci)]

\* App::delete_char: the new input and character_index.
delete_char(in, ci) ==
    LET is_not_cursor_leftmost == ci # 0
    IN IF is_not_cursor_leftmost
       THEN LET deleted == delete_char_input(in, ci)
            IN [input |-> deleted, character_index |-> move_cursor_left(deleted, ci)]
       ELSE [input |-> in, character_index |-> ci]

----------------------------------------------------------------------------
(* The lines typed into the input box *)

\* The longest input box the keys of Spec edit, and the longest history.
MaxInput == 3
MaxMessages == 2

\* The canonical string of the concrete case
CanonLine ==
    <<"0", "1", "0", "2", "0", "3", "0", "4", "-", "0", "5", "0",
      "6", "-", "0", "7", "0", "8", "-", "0", "9", "1", "0", "-",
      "1", "1", "1", "2", "1", "3", "1", "4", "1", "5", "1", "6">>

\* Its raw-hex form
RawLine ==
    <<"0", "4", "0", "3", "0", "2", "0", "1", "0", "6", "0", "5",
      "0", "8", "0", "7", "0", "9", "1", "0", "1", "1", "1", "2",
      "1", "3", "1", "4", "1", "5", "1", "6">>

\* 32 hexadecimal digits of both cases between two blanks
PaddedRawLine ==
    <<" ", "a", "B", "c", "D", "e", "F", "0", "1", "0", "2", "0",
      "3", "0", "4", "0", "5", "0", "6", "0", "7", "0", "8", "0",
      "9", "1", "0", "1", "1", "1", "2", "1", "3", " ">>

\* 36 characters and 4 hyphens, one of them misplaced
MisplacedLine ==
    <<"0", "1", "0", "2", "0", "3", "0", "-", "4", "0", "5", "0",
      "6", "-", "0", "7", "0", "8", "-", "0", "9", "1", "0", "-",
      "1", "1", "1", "2", "1", "3", "1", "4", "1", "5", "1", "6">>

\* 32 characters, one of them no hexadecimal digit
NonHexLine ==
    <<"0", "4", "0", "3", "0", "2", "0", "g", "0", "6", "0", "5",
      "0", "8", "0", "7", "0", "9", "1", "0", "1", "1", "1", "2",
      "1", "3", "1", "4", "1", "5", "1", "6">>

\* 35 characters in 36 bytes, 4 hyphens
AccentLine ==
    <<"0", "1", "0", "2", "0", "3", "0", "U+00E9", "-", "0", "5", "0",
      "6", "-", "0", "7", "0", "8", "-", "0", "9", "1", "0", "-",
      "1", "1", "1", "2", "1", "3", "1", "4", "1", "5", "1">>

SampleLines ==
    {CanonLine, RawLine, PaddedRawLine, MisplacedLine, NonHexLine, AccentLine}

\* The characters typed freely into the input box.
FreeChars == {"a", " ", "U+00E9"}

\* The characters that continue a sample line after its prefix s.
LineChars(s) ==
    {l[Len(s) + 1] : l \in {m \in SampleLines : Len(s) < Len(m) /\ SubSeq(m, 1, Len(s)) = s}}

IsPrefix(s, l) == Len(s) <= Len(l) /\ SubSeq(l, 1, Len(s)) = s

\* The input boxes of Spec: every string of FreeChars up to MaxInput long.
FreeText(s) == Len(s) <= MaxInput

\* The input boxes of SpecLines: a sample line, typed from left to right.
LineText(s) == \E l \in SampleLines : IsPrefix(s, l)

----------------------------------------------------------------------------
(* App::run: one action for each arm of the match on the key event *)

KeyKinds == {"Press", "Release"}

Key(code, ch, kind) == [code |-> code, ch |-> ch, kind |-> kind]

NoKey == Key("None", "", "Press")

\* App::new
AppInit ==
    /\ input = <<>>
    /\ character_index = 0
    /\ input_mode = "Normal"
    /\ messages = <<>>
    /\ key = NoKey
    /\ pc = "running"

FnIdle == arg = <<>> /\ arg2 = <<>> /\ called = "none" /\ ret = <<>>

ReorderIdle == orig = <<>> /\ bytes = <<>> /\ path = <<>>

Init == AppInit /\ FnIdle /\ ReorderIdle

Running(mode) == pc = "running" /\ input_mode = mode

\* InputMode::Normal, KeyCode::Char('e')
NormalKeyE ==
    /\ Running("Normal")
    /\ \E kind \in KeyKinds : key' = Key("Char", "e", kind)
    /\ input_mode' = "Editing"
    /\ UNCHANGED <<input, character_index, messages, pc>>

\* InputMode::Normal, KeyCode::Char('q'): run returns.
NormalKeyQ ==
    /\ Running("Normal")
    /\ \E kind \in KeyKinds : key' = Key("Char", "q", kind)
    /\ pc' = "exited"
    /\ UNCHANGED <<input, character_index, input_mode, messages>>

\* InputMode::Normal, any other key
NormalKeyOther ==
    /\ Running("Normal")
    /\ \E kind \in KeyKinds : key' = Key("Enter", "", kind)
    /\ UNCHANGED <<input, character_index, input_mode, messages, pc>>

\* InputMode::Editing, KeyCode::Enter: App::submit_message
KeyEnter ==
    /\ Running("Editing")
    /\ Len(messages) < MaxMessages
    /\ key' = Key("Enter", "", "Press")
    /\ LET result == submit_result(input)
       IN IF result = MsgPanic
          THEN pc' = "panicked" /\ UNCHANGED <<input, character_index, messages>>
          ELSE /\ messages' = Append(messages, result)
               /\ input' = <<>>
               /\ character_index' = 0
               /\ pc' = pc
    /\ UNCHANGED input_mode

\* InputMode::Editing, KeyCode::Char(to_insert): App::enter_char, for the
\* characters Chars the keyboard sends; byLine tells whether a sample line
\* is being typed (SpecLines) or free text (Spec).
KeyCharOf(Chars, byLine) ==
    /\ Running("Editing")
    /\ \E to_insert \in Chars :
         LET r == enter_char(input, character_index, to_insert)
         IN /\ key' = Key("Char", to_insert, "Press")
            /\ IF r.tag = "panic"
               THEN pc' = "panicked" /\ UNCHANGED <<input, character_index>>
               ELSE /\ IF byLine THEN LineText(r.input) ELSE FreeText(r.input)
                    /\ input' = r.input
                    /\ character_index' = r.character_index
                    /\ pc' = pc
    /\ UNCHANGED <<input_mode, messages>>

KeyChar == KeyCharOf(FreeChars, FALSE)

KeyCharLine == KeyCharOf(LineChars(input), TRUE)

\* InputMode::Editing, KeyCode::Backspace: App::delete_char
KeyBackspace ==
    /\ Running("Editing")
    /\ key' = Key("Backspace", "", "Press")
    /\ LET r == delete_char(input, character_index)
       IN /\ input' = r.input
          /\ character_index' = r.character_index
    /\ UNCHANGED <<input_mode, messages, pc>>

\* InputMode::Editing, KeyCode::Left: App::move_cursor_left
KeyLeft ==
    /\ Running("Editing")
    /\ key' = Key("Left", "", "Press")
    /\ character_index' = move_cursor_left(input, character_index)
    /\ UNCHANGED <<input, input_mode, messages, pc>>

\* InputMode::Editing, KeyCode::Right: App::move_cursor_right
KeyRight ==
    /\ Running("Editing")
    /\ key' = Key("Right", "", "Press")
    /\ character_index' = move_cursor_right(input, character_index)
    /\ UNCHANGED <<input, input_mode, messages, pc>>

\* InputMode::Editing, KeyCode::Esc
KeyEsc ==
    /\ Running("Editing")
    /\ key' = Key("Esc", "", "Press")
    /\ input_mode' = "Normal"
    /\ UNCHANGED <<input, character_index, messages, pc>>

\* InputMode::Editing, any other key pressed
KeyOther ==
    /\ Running("Editing")
    /\ key' = Key("Tab", "", "Press")
    /\ UNCHANGED <<input, character_index, input_mode, messages, pc>>

\* InputMode::Editing, a key event that is no press
KeyNotPress ==
    /\ Running("Editing")
    /\ key' = Key("Enter", "", "Release")
    /\ UNCHANGED <<input, character_index, input_mode, messages, pc>>

Idle == UNCHANGED <<fnVars, reorderVars>>

Next ==
    \/ NormalKeyE /\ Idle
    \/ NormalKeyQ /\ Idle
    \/ NormalKeyOther /\ Idle
    \/ KeyEnter /\ Idle
    \/ KeyChar /\ Idle
    \/ KeyBackspace /\ Idle
    \/ KeyLeft /\ Idle
    \/ KeyRight /\ Idle
    \/ KeyEsc /\ Idle
    \/ KeyOther /\ Idle
    \/ KeyNotPress /\ Idle

Spec == Init /\ [][Next]_vars

\* The sample lines typed character by character and submitted.
NextLines ==
    \/ NormalKeyE /\ Idle
    \/ KeyCharLine /\ Idle
    \/ KeyEnter /\ Idle

SpecLines == Init /\ [][NextLines]_vars

----------------------------------------------------------------------------
(* The codec and the classifier called directly, on a family of strings *)

\* The blanks put before and after an input.
MaxPad == 1

\* s with its character number p replaced by c.
Subst(s, p, c) == [i \in DOMAIN s |-> IF i = p THEN c ELSE s[i]]

RECURSIVE Blanks(_)
Blanks(n) == IF n = 0 THEN <<>> ELSE <<" ">> \o Blanks(n - 1)

\* The strings the inputs are made of: the sample lines, shortened and
\* lengthened around the two lengths the code tests.
Bases ==
    {RawLine, SubSeq(RawLine, 1, 31), SubSeq(RawLine, 1, 30), RawLine \o <<"0">>,
     SubSeq(PaddedRawLine, 2, 33),
     CanonLine, SubSeq(CanonLine, 1, 35), CanonLine \o <<"0">>,
     SubSeq(CanonLine, 1, 32), RawLine \o <<"0", "0", "0", "0">>}

\* The characters put into a base.
SubstChars == {"0", "f", "A", "g", "+", "-", " ", "U+00E9", "U+20AC"}

\* Every base with one character replaced, between 0..MaxPad blanks.
CodecInputs ==
    UNION {{Blanks(l) \o Subst(s, p, c) \o Blanks(r) :
               p \in 1..Len(s), c \in SubstChars, l \in 0..MaxPad, r \in 0..MaxPad} :
           s \in Bases}

CodecInit ==
    /\ arg \in CodecInputs
    /\ arg2 = <<>>
    /\ called = "none"
    /\ ret = <<>>

InitCodec == AppInit /\ CodecInit /\ ReorderIdle

\* input_type_validation(arg)
CallInputTypeValidation ==
    /\ called = "none"
    /\ called' = "input_type_validation"
    /\ ret' = input_type_validation(arg)
    /\ UNCHANGED <<arg, arg2>>

\* raw_hex_to_guid(arg)
CallRawHexToGuid ==
    /\ called = "none"
    /\ called' = "raw_hex_to_guid"
    /\ ret' = raw_hex_to_guid(arg)
    /\ UNCHANGED <<arg, arg2>>

\* guid_to_raw_hex of the identifier raw_hex_to_guid(arg) returned
CallGuidToRawHex ==
    /\ called = "raw_hex_to_guid"
    /\ ret.tag = "Some"
    /\ called' = "guid_to_raw_hex"
    /\ ret' = guid_to_raw_hex(ret.value)
    /\ UNCHANGED <<arg, arg2>>

NextCodec ==
    \/ CallInputTypeValidation /\ UNCHANGED <<appVars, reorderVars>>
    \/ CallRawHexToGuid /\ UNCHANGED <<appVars, reorderVars>>
    \/ CallGuidToRawHex /\ UNCHANGED <<appVars, reorderVars>>

SpecCodec == InitCodec /\ [][NextCodec]_vars

----------------------------------------------------------------------------
(* The two reorderings applied to a family of 16-byte sequences *)

\* The values of the first eight bytes, 0..MaxByte, and the number of
\* reorderings applied in a row.
MaxByte == 1
MaxReorders == 2

\* The last eight bytes: all different, so that moving one shows.
TailBytes == <<240, 241, 242, 243, 244, 245, 246, 247>>

\* Every choice of the eight bytes the transform moves, then TailBytes.
ByteSeqs == {h \o TailBytes : h \in [1..8 -> 0..MaxByte]}

ReorderInit ==
    /\ orig \in ByteSeqs
    /\ bytes = orig
    /\ path = <<>>

InitReorder == AppInit /\ FnIdle /\ ReorderInit

\* The reordering of raw_hex_to_guid applied to bytes
ReorderInRawHexToGuid ==
    /\ Len(path) < MaxReorders
    /\ bytes' = raw_hex_to_guid_reordered(bytes)
    /\ path' = Append(path, "raw_hex_to_guid")
    /\ UNCHANGED orig

\* The reordering of guid_to_raw_hex applied to bytes
ReorderInGuidToRawHex ==
    /\ Len(path) < MaxReorders
    /\ bytes' = guid_to_raw_hex_reordered(bytes)
    /\ path' = Append(path, "guid_to_raw_hex")
    /\ UNCHANGED orig

NextReorder ==
    \/ ReorderInRawHexToGuid /\ UNCHANGED <<appVars, fnVars>>
    \/ ReorderInGuidToRawHex /\ UNCHANGED <<appVars, fnVars>>

SpecReorder == InitReorder /\ [][NextReorder]_vars

----------------------------------------------------------------------------
(* A canonical string and a raw-hex string decoded side by side *)

\* The characters 1..MaxSite of a string are the ones replaced: they hold
\* the eight bytes the transform moves.
MaxSite == 18

\* The characters put into the two strings.
CrossChars == {"0", "f", "F", "+"}

Variants(s) ==
    {Subst(s, p, c) : p \in 1..(IF MaxSite < Len(s) THEN MaxSite ELSE Len(s)),
                      c \in CrossChars}

CrossInit ==
    /\ arg \in Variants(CanonLine)
    /\ arg2 \in Variants(RawLine)
    /\ called = "none"
    /\ ret = <<>>

InitCross == AppInit /\ CrossInit /\ ReorderIdle

\* Uuid::parse_str(arg) and raw_hex_to_guid(arg2)
CrossDecode ==
    /\ called = "none"
    /\ called' = "decode"
    /\ ret' = [s |-> ParseStr(arg), t |-> raw_hex_to_guid(arg2)]
    /\ UNCHANGED <<arg, arg2>>

\* guid_to_raw_hex of the identifier decoded from arg
CrossEncode ==
    /\ called = "decode"
    /\ ret.s.tag = "Ok"
    /\ called' = "encode"
    /\ ret' = [s |-> ret.s, t |-> ret.t, raw_hex |-> guid_to_raw_hex(ret.s.value)]
    /\ UNCHANGED <<arg, arg2>>

NextCross ==
    \/ CrossDecode /\ UNCHANGED <<appVars, reorderVars>>
    \/ CrossEncode /\ UNCHANGED <<appVars, reorderVars>>

SpecCross == InitCross /\ [][NextCross]_vars

----------------------------------------------------------------------------
(* The properties *)

\* str::to_ascii_uppercase, for the characters of the model.
ToAsciiUppercase(s) ==
    [i \in DOMAIN s |->
        IF s[i] \in Range(LowerDigits)
        THEN UpperDigits[CHOOSE n \in 1..16 : LowerDigits[n] = s[i]]
        ELSE s[i]]

\* Exactly 32 hexadecimal digits of either case.
IsRawHex32(s) == Len(s) = 32 /\ \A i \in 1..32 : IsAsciiHexdigit(s[i])

Last(s) == s[Len(s)]

\* The transform as the specification words it: bytes 0..4, 4..6 and 6..8
\* reversed, bytes 8..16 copied.
Transform(b) ==
    <<b[4], b[3], b[2], b[1], b[6], b[5], b[8], b[7],
      b[9], b[10], b[11], b[12], b[13], b[14], b[15], b[16]>>

\* C1: each of the two reorderings is the byte-reorder transform, and any two
\* of them applied in a row (the one of raw_hex_to_guid twice, the one of
\* guid_to_raw_hex twice, or one after the other) return the 16 bytes they
\* started from.
C1_ReorderInvolution ==
    /\ Len(path) % 2 = 1 => bytes = Transform(orig)
    /\ Len(path) % 2 = 0 => bytes = orig

\* C1's case: the two different reorderings, one after the other, on bytes
\* the first reversal moves.
C1_Witness ==
    /\ path = <<"raw_hex_to_guid", "guid_to_raw_hex">>
    /\ orig[1] # orig[4]
    /\ bytes = orig

\* C2: raw_hex_to_guid succeeds on every string of 32 hexadecimal digits, and
\* guid_to_raw_hex of its result is the string in uppercase.
C2_RawHexRoundTrip ==
    IsRawHex32(arg) =>
        /\ called = "raw_hex_to_guid" => ret.tag = "Some"
        /\ called = "guid_to_raw_hex" => ret = ToAsciiUppercase(arg)

\* C2's case: a round trip that changed the case of a digit.
C2_Witness ==
    /\ called = "guid_to_raw_hex"
    /\ IsRawHex32(arg)
    /\ ret # arg
    /\ ret = ToAsciiUppercase(arg)

\* C3: a valid canonical string arg and a string arg2 of 32 hexadecimal
\* digits both decode, and they decode to the same identifier exactly when
\* arg2 in uppercase is guid_to_raw_hex of the identifier decoded from arg.
C3_CrossFormEquivalence ==
    (IsHyphenated(arg) /\ IsRawHex32(arg2)) =>
        /\ called = "decode" => ret.s.tag = "Ok" /\ ret.t.tag = "Some"
        /\ called = "encode" =>
              /\ ret.t.tag = "Some"
              /\ ret.raw_hex = Concat([i \in 1..16 |->
                                   FormatUpperHex(Transform(ret.s.value)[i])])
              /\ (ret.s.value = ret.t.value) <=> (ToAsciiUppercase(arg2) = ret.raw_hex)

\* C3's case: two strings, neither the sample line, one with a lowercase
\* digit, that decode to the same identifier.
C3_Witness ==
    /\ called = "encode"
    /\ IsHyphenated(arg) /\ IsRawHex32(arg2)
    /\ arg # CanonLine
    /\ arg2 # ToAsciiUppercase(arg2)
    /\ ret.s.value = ret.t.value

\* C4: the classifier returns "Guid" exactly when the trimmed input has 36
\* characters, 4 of them hyphens.
C4_GuidIffThirtySixChars ==
    called = "input_type_validation" =>
        (ret = "Guid" <=> (CharCount(Trim(arg)) = 36 /\ CountOf(Trim(arg), "-") = 4))

\* C5: the classifier returns one of the three tags; when it is not "Guid",
\* it is "RawHex" exactly when the trimmed input has 32 characters, all of
\* them hexadecimal digits, and "None" otherwise.
C5_RawHexIffThirtyTwoHexDigits ==
    called = "input_type_validation" =>
        /\ ret \in {"Guid", "RawHex", "None"}
        /\ ret = "RawHex" => IsRawHex32(Trim(arg))
        /\ ret = "None" => ~IsRawHex32(Trim(arg))

\* C5's case: a raw-hex string between blanks, classified.
C5_Witness ==
    /\ called = "input_type_validation"
    /\ ret = "RawHex"
    /\ arg # Trim(arg)

\* C6: on a string of 32 characters, raw_hex_to_guid returns an identifier
\* only when all of them are hexadecimal digits, and nothing otherwise.
C6_NothingUnlessAllHex ==
    (called = "raw_hex_to_guid" /\ CharCount(arg) = 32) =>
        IF IsRawHex32(arg) THEN ret.tag = "Some" ELSE ret.tag = "None"

\* C7: raw_hex_to_guid returns an identifier or nothing on every string; it
\* never panics.
C7_NeverPanics ==
    called = "raw_hex_to_guid" => ret.tag \in {"Some", "None"}

\* The step that handled a press of `code` in editing mode.
Pressed(code) ==
    /\ pc = "running"
    /\ input_mode = "Editing"
    /\ key'.code = code
    /\ key'.kind = "Press"

\* C8: no history holds "Invalid Raw Hex.", and a submitted line the
\* classifier tags "RawHex" is decoded and answered with "GUID: " and a
\* canonical string.
C8_InvalidRawHexUnreachable ==
    /\ [](\A i \in DOMAIN messages : messages[i] # MsgInvalidRawHex)
    /\ [][(Pressed("Enter") /\ input_type_validation(input) = "RawHex") =>
            /\ pc' = "running"
            /\ raw_hex_to_guid(Trim(input)).tag = "Some"
            /\ messages' # messages
            /\ Last(messages').text = "OK GUID: "
            /\ IsHyphenated(Last(messages').payload)
            /\ ToAsciiUppercase(HexDigitsOf(Last(messages').payload))
                 = Concat([i \in 1..16 |->
                      FormatUpperHex(Transform(BytesOfDigits(Trim(input)))[i])])]_vars

\* C8's case: the line between blanks was submitted and converted.
C8_Witness ==
    /\ key.code = "Enter"
    /\ Len(messages) = 1
    /\ messages[1].text = "OK GUID: "
    /\ messages[1].payload # CanonLine

NaturalBytes == <<1, 2, 3, 4, 5, 6, 7, 8, 9, 16, 17, 18, 19, 20, 21, 22>>

\* C9: the canonical sample line decodes to the bytes 01 02 .. 16 (hex) and
\* is answered with the raw-hex sample line; the raw-hex sample line is
\* answered with the canonical sample line.
C9_ConcreteConversion ==
    [][Pressed("Enter") =>
        /\ input = CanonLine =>
              /\ ParseStr(Trim(input)) = [tag |-> "Ok", value |-> NaturalBytes]
              /\ messages' = Append(messages, [text |-> "OK Raw Hex: ", payload |-> RawLine])
        /\ input = RawLine =>
              messages' = Append(messages, [text |-> "OK GUID: ", payload |-> CanonLine])]_vars

\* C9's case: the canonical line submitted, then its answer submitted.
C9_Witness ==
    messages = <<[text |-> "OK Raw Hex: ", payload |-> RawLine],
                 [text |-> "OK GUID: ", payload |-> CanonLine]>>

CursorInRange == 0 <= character_index /\ character_index <= Len(input)

\* C10: the cursor stays within 0..length of the input; a character is
\* inserted at the cursor, which advances; a backspace removes the character
\* left of the cursor, which moves back, and changes nothing at cursor 0; a
\* submit empties the input and puts the cursor at 0.
C10_CursorInvariant ==
    /\ CursorInRange
    /\ [][/\ CursorInRange'
          /\ Pressed("Char") =>
                /\ input' = SubSeq(input, 1, character_index) \o <<key'.ch>>
                              \o SubSeq(input, character_index + 1, Len(input))
                /\ character_index' = character_index + 1
          /\ (Pressed("Backspace") /\ character_index > 0) =>
                /\ input' = SubSeq(input, 1, character_index - 1)
                              \o SubSeq(input, character_index + 1, Len(input))
                /\ character_index' = character_index - 1
          /\ (Pressed("Backspace") /\ character_index = 0) =>
                /\ input' = input
                /\ character_index' = 0
          /\ Pressed("Enter") =>
                /\ input' = <<>>
                /\ character_index' = 0]_vars

\* C10's case: a backspace removed a two-byte character from the middle of
\* the input.
C10_Witness ==
    /\ key.code = "Backspace"
    /\ character_index = 1
    /\ input = <<"U+00E9", "a">>

====
